---- MODULE Spec2Model ----
(***************************************************************************)
(* A model of extract.py: the OCR shipping-label extraction pipeline.      *)
(*                                                                         *)
(* Texts are TLA+ strings; a character is a string of length 1.  The       *)
(* library calls the script makes (re, json, difflib.SequenceMatcher,      *)
(* str.lower, str.strip, str.title) are modelled by what they compute on   *)
(* texts of ASCII letters, digits, punctuation and the whitespace          *)
(* characters space, tab, newline, return and form feed.                   *)
(*                                                                         *)
(* Loops over a text are written with Thread, which applies a step to the  *)
(* positions lo..hi in order and splits the range in halves, so that the   *)
(* depth of evaluation grows with the logarithm of the length of the text. *)
(***************************************************************************)
EXTENDS Integers, Sequences, FiniteSets, TLC

Min(set) == CHOOSE m \in set : \A n \in set : m <= n
Max(set) == CHOOSE m \in set : \A n \in set : m >= n

\* step(...step(step(st, lo), lo + 1)..., hi); the test left = left makes the
\* evaluation of the left half finish before that of the right half starts
RECURSIVE Thread(_, _, _, _)
Thread(step(_, _), lo, hi, st) ==
    IF lo > hi THEN st
    ELSE IF lo = hi THEN step(st, lo)
    ELSE LET mid == (lo + hi) \div 2
             left == Thread(step, lo, mid, st)
         IN  IF left = left THEN Thread(step, mid + 1, hi, left) ELSE st

\* --------------------------------------------------------------------------
\* Characters and the str methods
\* --------------------------------------------------------------------------
LowerStr == "abcdefghijklmnopqrstuvwxyz"
UpperStr == "ABCDEFGHIJKLMNOPQRSTUVWXYZ"
DigitStr == "0123456789"

Ch(s, i) == SubSeq(s, i, i)
CharsOf(s) == {Ch(s, i) : i \in 1..Len(s)}

LowerAlpha == CharsOf(LowerStr)
UpperAlpha == CharsOf(UpperStr)
Alpha == LowerAlpha \cup UpperAlpha
Digit == CharsOf(DigitStr)
\* \s of the re module and the characters str.strip removes
Space == {" ", "\t", "\n", "\r", "\f"}
\* \w of the re module
WordChar == Alpha \cup Digit \cup {"_"}

ToLower == [c \in UpperAlpha |-> Ch(LowerStr, CHOOSE i \in 1..26 : Ch(UpperStr, i) = c)]
ToUpper == [c \in LowerAlpha |-> Ch(UpperStr, CHOOSE i \in 1..26 : Ch(LowerStr, i) = c)]

LowerChar(c) == IF c \in UpperAlpha THEN ToLower[c] ELSE c
UpperChar(c) == IF c \in LowerAlpha THEN ToUpper[c] ELSE c

\* str.lower()
lower(s) == Thread(LAMBDA acc, i : acc \o LowerChar(Ch(s, i)), 1, Len(s), "")

\* str.strip(): leading and trailing whitespace removed
strip(s) ==
    LET keep == {i \in 1..Len(s) : Ch(s, i) \notin Space}
    IN  IF keep = {} THEN "" ELSE SubSeq(s, Min(keep), Max(keep))

\* str.title(): the first letter of every run of letters in upper case, the
\* other letters of the run in lower case
title(s) ==
    LET step(acc, i) ==
            LET c == Ch(s, i)
                first == i = 1 \/ Ch(s, i - 1) \notin Alpha
            IN  acc \o (IF first THEN UpperChar(c) ELSE LowerChar(c))
    IN  Thread(step, 1, Len(s), "")

\* the first position from i on whose character is not in cs (Len(s) + 1 if
\* there is none)
RunEnd(cs, s, i) ==
    CHOOSE j \in i..(Len(s) + 1) :
        /\ j = Len(s) + 1 \/ Ch(s, j) \notin cs
        /\ \A k \in i..(j - 1) : Ch(s, k) \in cs

\* --------------------------------------------------------------------------
\* Regular expressions (module re): a backtracking matcher.
\* A pattern is a record: one character of a set, any character (. under
\* re.DOTALL), a literal text, a word boundary \b, a sequence, an
\* alternation, or a repetition {min,max} (max = -1: unbounded), greedy or
\* lazy.
\* Ends(r, s, i) lists the positions at which a match of r that starts at
\* position i of s can end, in the order the backtracking matcher tries
\* them, each position once: the head of the list is the match re returns.
\* No pattern of the script matches the empty string.
\* --------------------------------------------------------------------------
InSet(cs) == [t |-> "set", cs |-> cs]
AnyChar == [t |-> "any"]
WordBoundary == [t |-> "wb"]
Cat(rs) == [t |-> "seq", rs |-> rs]
Alt(rs) == [t |-> "alt", rs |-> rs]
Rep(r, min, max) == [t |-> "rep", r |-> r, min |-> min, max |-> max, greedy |-> TRUE]
LazyRep(r, min, max) == [t |-> "rep", r |-> r, min |-> min, max |-> max, greedy |-> FALSE]
Plus(r) == Rep(r, 1, -1)
LazyPlus(r) == LazyRep(r, 1, -1)
Opt(r) == Rep(r, 0, 1)
Lit(str) == [t |-> "lit", str |-> str]
Words(ws) == Alt([k \in 1..Len(ws) |-> Lit(ws[k])])

StartsWith(s, i, w) == i + Len(w) - 1 <= Len(s) /\ SubSeq(s, i, i + Len(w) - 1) = w

IsWordAt(s, i) == i >= 1 /\ i <= Len(s) /\ Ch(s, i) \in WordChar

\* acc, then the positions of q that acc does not hold
Merge(acc, q) == acc \o SelectSeq(q, LAMBDA e : \A j \in 1..Len(acc) : acc[j] # e)

\* a repetition of a single-character pattern: every admissible length of the
\* run of matching characters from i is an end
EndsCharRep(r, s, i) ==
    LET run == (IF r.r.t = "any" THEN Len(s) + 1 ELSE RunEnd(r.r.cs, s, i)) - i
        hi == IF r.max >= 0 /\ r.max < run THEN r.max ELSE run
        cnt == hi - r.min + 1
    IN  IF cnt <= 0 THEN <<>>
        ELSE [k \in 1..cnt |-> IF r.greedy THEN i + hi - (k - 1) ELSE i + r.min + (k - 1)]

RECURSIVE Ends(_, _, _)
RECURSIVE EndsRep(_, _, _, _)

\* every way r matches from each of the positions P, in the order of P
EndsFrom(r, s, P) ==
    Thread(LAMBDA acc, k : Merge(acc, Ends(r, s, P[k])), 1, Len(P), <<>>)

\* n repetitions of r.r are matched and the next one would start at i
EndsRep(r, s, i, n) ==
    LET next == SelectSeq(Ends(r.r, s, i), LAMBDA e : e > i)
        more == IF r.max = n THEN <<>>
                ELSE Thread(LAMBDA acc, k : Merge(acc, EndsRep(r, s, next[k], n + 1)),
                            1, Len(next), <<>>)
        stop == IF n >= r.min THEN <<i>> ELSE <<>>
    IN  IF r.greedy THEN Merge(more, stop) ELSE Merge(stop, more)

Ends(r, s, i) ==
    CASE r.t = "set" -> IF i <= Len(s) /\ Ch(s, i) \in r.cs THEN <<i + 1>> ELSE <<>>
      [] r.t = "any" -> IF i <= Len(s) THEN <<i + 1>> ELSE <<>>
      [] r.t = "lit" -> IF StartsWith(s, i, r.str) THEN <<i + Len(r.str)>> ELSE <<>>
      [] r.t = "wb"  -> IF IsWordAt(s, i - 1) # IsWordAt(s, i) THEN <<i>> ELSE <<>>
      [] r.t = "seq" -> Thread(LAMBDA P, k : IF P = <<>> THEN P ELSE EndsFrom(r.rs[k], s, P),
                               1, Len(r.rs), <<i>>)
      [] r.t = "alt" -> Thread(LAMBDA acc, k : Merge(acc, Ends(r.rs[k], s, i)),
                               1, Len(r.rs), <<>>)
      [] r.t = "rep" -> IF r.r.t \in {"set", "any"} THEN EndsCharRep(r, s, i)
                        ELSE EndsRep(r, s, i, 0)

NoMatch == <<0, 0>>

\* re.search: <<start, end>> of the leftmost match (the text matched is
\* s[start .. end-1]), or NoMatch
Search(r, s) ==
    LET step(found, i) ==
            IF found # NoMatch THEN found
            ELSE LET es == Ends(r, s, i)
                 IN  IF es = <<>> THEN NoMatch ELSE <<i, es[1]>>
    IN  Thread(step, 1, Len(s), NoMatch)

Matches(r, s) == Search(r, s) # NoMatch

\* the scan of re.sub and re.findall: the matches taken are the leftmost ones
\* that do not overlap; pos is the position after the last match taken
ScanStart == [out |-> <<>>, txt |-> "", pos |-> 1]

\* re.sub(r, repl, s)
Sub(r, repl, s) ==
    LET step(st, i) ==
            IF i < st.pos THEN st
            ELSE LET es == Ends(r, s, i)
                 IN  IF es = <<>> THEN [st EXCEPT !.txt = @ \o Ch(s, i), !.pos = i + 1]
                     ELSE [st EXCEPT !.txt = @ \o repl, !.pos = es[1]]
    IN  Thread(step, 1, Len(s), ScanStart).txt

\* re.findall(r, s), for a pattern without groups
FindAll(r, s) ==
    LET step(st, i) ==
            IF i < st.pos THEN st
            ELSE LET es == Ends(r, s, i)
                 IN  IF es = <<>> THEN [st EXCEPT !.pos = i + 1]
                     ELSE [st EXCEPT !.out = Append(@, SubSeq(s, i, es[1] - 1)), !.pos = es[1]]
    IN  Thread(step, 1, Len(s), ScanStart).out

\* --------------------------------------------------------------------------
\* OCR cleaning
\* --------------------------------------------------------------------------
D == InSet(Digit)
S == InSet(Space)

\* \b\d+(\.\d+)?\s?lbs\b
WeightPattern ==
    Cat(<<WordBoundary, Plus(D), Opt(Cat(<<Lit("."), Plus(D)>>)), Opt(S), Lit("lbs"),
          WordBoundary>>)

\* \b\d{10,}\b
LongDigitsPattern == Cat(<<WordBoundary, Rep(D, 10, -1), WordBoundary>>)

\* \b(united states|usa)\b
CountryPattern == Cat(<<WordBoundary, Words(<<"united states", "usa">>), WordBoundary>>)

StopWords ==
    <<"priority", "ground", "tracking", "fedex", "ups", "usps", "billing", "sender", "postage">>

\* \b(priority|ground|tracking|fedex|ups|usps|billing|sender|postage)\b
StopWordPattern == Cat(<<WordBoundary, Words(StopWords), WordBoundary>>)

\* \s+
SpacesPattern == Plus(S)

SubWeight(text) == Sub(WeightPattern, "", text)
SubLongDigits(text) == Sub(LongDigitsPattern, "", text)
SubCountry(text) == Sub(CountryPattern, "", text)
SubStopWords(text) == Sub(StopWordPattern, "", text)
CollapseSpaces(text) == strip(Sub(SpacesPattern, " ", text))

clean_ocr(text) ==
    CollapseSpaces(SubStopWords(SubCountry(SubLongDigits(SubWeight(lower(text))))))

\* --------------------------------------------------------------------------
\* JSON parser: json.loads on the span re.search(r"\{.*\}", resp, re.DOTALL)
\* finds.  A decoded value is a record: a string [k |-> "str", s |-> ...], an
\* object [k |-> "dict", items |-> <<<<key, value>>, ...>>] or a value of
\* another Python type, [k |-> "NoneType" | "bool" | "int" | "float" | "list"].
\* A parse result is [ok, pos, val]: pos is the position after the value.
\* The escapes \b and \uXXXX stand for characters outside the modelled ones
\* and are not decoded.
\* --------------------------------------------------------------------------
JsonSpace == {" ", "\t", "\n", "\r"}
StrVal(str) == [k |-> "str", s |-> str]
PyVal(type) == [k |-> type]
DictVal(items) == [k |-> "dict", items |-> items]
EmptyDict == DictVal(<<>>)
Fail == [ok |-> FALSE, pos |-> 0, val |-> PyVal("NoneType")]
Ok(pos, val) == [ok |-> TRUE, pos |-> pos, val |-> val]

SkipWs(s, i) == RunEnd(JsonSpace, s, i)

Escapes == [c \in {"\"", "\\", "/", "n", "t", "r", "f"} |->
              CASE c = "n" -> "\n" [] c = "t" -> "\t" [] c = "r" -> "\r" [] c = "f" -> "\f"
                [] OTHER -> c]

\* py_scanstring (strict) from position i, the one after the opening quote:
\* characters are taken up to the closing quote; a backslash escapes the next
\* character; a control character ends the scan in an error
ScanString(s, i) ==
    LET step(st, j) ==
            LET c == Ch(s, j)
            IN  CASE st.mode = "text" /\ c = "\"" -> [st EXCEPT !.mode = "done", !.pos = j + 1]
                  [] st.mode = "text" /\ c = "\\" -> [st EXCEPT !.mode = "escape"]
                  [] st.mode = "text" /\ c \in {"\t", "\n", "\r", "\f"} ->
                         [st EXCEPT !.mode = "error"]
                  [] st.mode = "text" -> [st EXCEPT !.txt = @ \o c]
                  [] st.mode = "escape" /\ c \in DOMAIN Escapes ->
                         [st EXCEPT !.mode = "text", !.txt = @ \o Escapes[c]]
                  [] st.mode = "escape" -> [st EXCEPT !.mode = "error"]
                  [] OTHER -> st
        end == Thread(step, i, Len(s), [mode |-> "text", txt |-> "", pos |-> 0])
    IN  IF end.mode = "done" THEN Ok(end.pos, StrVal(end.txt)) ELSE Fail

\* (-?(?:0|[1-9]\d*))(\.\d+)?([eE][-+]?\d+)?
NumberPattern ==
    Cat(<<Opt(Lit("-")),
          Alt(<<Lit("0"), Cat(<<InSet(Digit \ {"0"}), Rep(InSet(Digit), 0, -1)>>)>>),
          Opt(Cat(<<Lit("."), Plus(InSet(Digit))>>)),
          Opt(Cat(<<InSet({"e", "E"}), Opt(InSet({"-", "+"})), Plus(InSet(Digit))>>))>>)

ScanNumber(s, i) ==
    LET es == Ends(NumberPattern, s, i)
    IN  IF es = <<>> THEN Fail
        ELSE LET txt == SubSeq(s, i, es[1] - 1)
                 isFloat == \E j \in 1..Len(txt) : Ch(txt, j) \in {".", "e", "E"}
             IN  Ok(es[1], PyVal(IF isFloat THEN "float" ELSE "int"))

RECURSIVE ScanOnce(_, _)
RECURSIVE ScanObject(_, _, _)
RECURSIVE ScanArray(_, _)

\* JSONObject: a key is expected at i; items are the pairs decoded so far
ScanObject(s, i, items) ==
    IF ~StartsWith(s, i, "\"") THEN Fail
    ELSE LET key == ScanString(s, i + 1)
         IN  IF ~key.ok THEN Fail
             ELSE LET c == SkipWs(s, key.pos)
                  IN  IF ~StartsWith(s, c, ":") THEN Fail
                      ELSE LET v == ScanOnce(s, SkipWs(s, c + 1))
                           IN  IF ~v.ok THEN Fail
                               ELSE LET e == SkipWs(s, v.pos)
                                        got == Append(items, <<key.val.s, v.val>>)
                                    IN  CASE StartsWith(s, e, "}") -> Ok(e + 1, DictVal(got))
                                          [] StartsWith(s, e, ",") ->
                                                 ScanObject(s, SkipWs(s, e + 1), got)
                                          [] OTHER -> Fail

\* JSONArray: a value is expected at i
ScanArray(s, i) ==
    LET v == ScanOnce(s, i)
    IN  IF ~v.ok THEN Fail
        ELSE LET e == SkipWs(s, v.pos)
             IN  CASE StartsWith(s, e, "]") -> Ok(e + 1, PyVal("list"))
                   [] StartsWith(s, e, ",") -> ScanArray(s, SkipWs(s, e + 1))
                   [] OTHER -> Fail

\* scan_once: the value that starts at i
ScanOnce(s, i) ==
    CASE i > Len(s) -> Fail
      [] StartsWith(s, i, "\"") -> ScanString(s, i + 1)
      [] StartsWith(s, i, "{") ->
             LET j == SkipWs(s, i + 1)
             IN  IF StartsWith(s, j, "}") THEN Ok(j + 1, EmptyDict)
                 ELSE ScanObject(s, j, <<>>)
      [] StartsWith(s, i, "[") ->
             LET j == SkipWs(s, i + 1)
             IN  IF StartsWith(s, j, "]") THEN Ok(j + 1, PyVal("list"))
                 ELSE ScanArray(s, j)
      [] StartsWith(s, i, "null") -> Ok(i + 4, PyVal("NoneType"))
      [] StartsWith(s, i, "true") -> Ok(i + 4, PyVal("bool"))
      [] StartsWith(s, i, "false") -> Ok(i + 5, PyVal("bool"))
      [] StartsWith(s, i, "NaN") -> Ok(i + 3, PyVal("float"))
      [] StartsWith(s, i, "Infinity") -> Ok(i + 8, PyVal("float"))
      [] StartsWith(s, i, "-Infinity") -> Ok(i + 9, PyVal("float"))
      [] OTHER -> ScanNumber(s, i)

\* json.loads(s): one value, whitespace around it allowed, nothing after it
json_loads(s) ==
    LET v == ScanOnce(s, SkipWs(s, 1))
    IN  IF v.ok /\ SkipWs(s, v.pos) = Len(s) + 1 THEN v ELSE Fail

\* \{.*\} with re.DOTALL
JsonSpanPattern == Cat(<<Lit("{"), Rep(AnyChar, 0, -1), Lit("}")>>)

extract_json(resp) ==
    LET m == Search(JsonSpanPattern, resp)
    IN  IF m = NoMatch THEN EmptyDict
        ELSE LET v == json_loads(SubSeq(resp, m[1], m[2] - 1))
             IN  IF v.ok THEN v.val ELSE EmptyDict

\* dict.get(key) without the default: a missing key gives None
DictGetNoDefault(data, key, default) ==
    LET at == {k \in 1..Len(data.items) : data.items[k][1] = key}
    IN  IF at = {} THEN PyVal("NoneType") ELSE data.items[Max(at)][2]

\* dict.get(key, default): of the pairs decoded for one key, the last stands
DictGet(data, key, default) ==
    LET at == {k \in 1..Len(data.items) : data.items[k][1] = key}
    IN  IF at = {} THEN default ELSE data.items[Max(at)][2]

\* --------------------------------------------------------------------------
\* Fuzzy match helpers: difflib.SequenceMatcher(None, a, b).ratio().
\* Positions are those of the library: 0-based, a[alo:ahi] and b[blo:bhi].
\* No element is junk: the popularity heuristic needs 200 elements in b, and
\* b is a known name.
\* --------------------------------------------------------------------------
At(s, i) == Ch(s, i + 1)

\* the length of the common run of a[i:ahi] and b[j:bhi]
RunLen(a, i, ahi, b, j, bhi) ==
    LET room == Min({ahi - i, bhi - j})
    IN  CHOOSE k \in 0..room :
            /\ k = room \/ At(a, i + k) # At(b, j + k)
            /\ \A t \in 0..(k - 1) : At(a, i + t) = At(b, j + t)

\* find_longest_match: of the longest common blocks, the one that starts
\* earliest in a, and of those the one that starts earliest in b
find_longest_match(a, alo, ahi, b, blo, bhi) ==
    LET same == {p \in (alo..(ahi - 1)) \X (blo..(bhi - 1)) : At(a, p[1]) = At(b, p[2])}
        heads == {p \in same : p[1] = alo \/ p[2] = blo \/ <<p[1] - 1, p[2] - 1>> \notin same}
        len == [p \in heads |-> RunLen(a, p[1], ahi, b, p[2], bhi)]
    IN  IF heads = {} THEN [i |-> alo, j |-> blo, size |-> 0]
        ELSE LET size == Max({len[p] : p \in heads})
                 i == Min({p[1] : p \in {q \in heads : len[q] = size}})
                 j == Min({p[2] : p \in {q \in heads : len[q] = size /\ q[1] = i}})
             IN  [i |-> i, j |-> j, size |-> size]

\* the sum of the sizes of get_matching_blocks(): the longest match, then the
\* matches to its left and to its right
RECURSIVE Matched(_, _, _, _, _, _)
Matched(a, alo, ahi, b, blo, bhi) ==
    LET m == find_longest_match(a, alo, ahi, b, blo, bhi)
    IN  IF m.size = 0 THEN 0
        ELSE m.size
             + (IF alo < m.i /\ blo < m.j THEN Matched(a, alo, m.i, b, blo, m.j) ELSE 0)
             + (IF m.i + m.size < ahi /\ m.j + m.size < bhi
                THEN Matched(a, m.i + m.size, ahi, b, m.j + m.size, bhi) ELSE 0)

\* A score is the ratio 2.0 * matches / length, kept as <<numerator,
\* denominator>>; on lengths this small the float quotients compare as the
\* fractions do, and 0.75 is exact.
Zero == <<0, 1>>
Threshold == <<3, 4>>
Greater(p, q) == p[1] * q[2] > q[1] * p[2]
AtLeast(p, q) == p[1] * q[2] >= q[1] * p[2]

ratio(a, b) ==
    IF Len(a) + Len(b) = 0 THEN <<1, 1>>
    ELSE <<2 * Matched(a, 0, Len(a), b, 0, Len(b)), Len(a) + Len(b)>>

similarity(a, b) == ratio(lower(a), lower(b))

KNOWN_RECIPIENTS == <<"Zoey Dong", "Syta Saephan", "Ky Dong", "Tashayanna Mixson">>

\* [a-z]{3,}
NameWordPattern == Rep(InSet(LowerAlpha), 3, -1)

NameWords(text) == FindAll(NameWordPattern, lower(text))

\* the bigrams of consecutive words, left to right
Candidates(words) ==
    IF Len(words) < 2 THEN <<>>
    ELSE [i \in 1..(Len(words) - 1) |-> words[i] \o " " \o words[i + 1]]

BestStart == [best_name |-> "", best_score |-> Zero]

\* the loop body with best_name = cand: the text of the label is kept
CompareKeepsCandidate(best, cand, real) ==
    LET score == similarity(cand, real)
    IN  IF Greater(score, best.best_score)
        THEN [best_name |-> cand, best_score |-> score]
        ELSE best

\* the loop body with score >= best_score: of equal scores the last stands
CompareLastWins(best, cand, real) ==
    LET score == similarity(cand, real)
    IN  IF AtLeast(score, best.best_score)
        THEN [best_name |-> real, best_score |-> score]
        ELSE best

\* the body of the two loops: one candidate against one known name
Compare(best, cand, real) ==
    LET score == similarity(cand, real)
    IN  IF Greater(score, best.best_score)
        THEN [best_name |-> real, best_score |-> score]
        ELSE best

\* the n-th (candidate, known name) pair of the loops, n from 1
PairCand(candidates, n) == candidates[((n - 1) \div Len(KNOWN_RECIPIENTS)) + 1]
PairReal(n) == KNOWN_RECIPIENTS[((n - 1) % Len(KNOWN_RECIPIENTS)) + 1]

BestOf(best) == IF AtLeast(best.best_score, Threshold) THEN best.best_name ELSE ""

match_known_name_from_text(text) ==
    LET candidates == Candidates(NameWords(text))
        step(best, n) == Compare(best, PairCand(candidates, n), PairReal(n))
    IN  BestOf(Thread(step, 1, Len(candidates) * Len(KNOWN_RECIPIENTS), BestStart))

\* --------------------------------------------------------------------------
\* Address fallback (regex)
\* --------------------------------------------------------------------------
StreetWords ==
    <<"dr", "drive", "st", "street", "blvd", "boulevard", "lane", "ln", "rd", "road",
      "parkway", "pkwy", "ave", "avenue">>

StateWords == <<"ca", "nd", "tx", "ga">>

\* \d{3,6}\s+[a-z0-9\s]+(?:dr|...|avenue)\s+[a-z\s]+?\s+(?:ca|nd|tx|ga)
AddressHead ==
    <<Rep(D, 3, 6), Plus(S), Plus(InSet(LowerAlpha \cup Digit \cup Space)), Words(StreetWords),
      Plus(S), LazyPlus(InSet(LowerAlpha \cup Space)), Plus(S), Words(StateWords)>>

\* ...\s+\d{5}(?:-\d{4})?
AddressZip == <<Plus(S), Rep(D, 5, 5), Opt(Cat(<<Lit("-"), Rep(D, 4, 4)>>))>>

AddressPatterns == <<Cat(AddressHead \o AddressZip), Cat(AddressHead)>>

\* the patterns are tried in order and the first that matches decides
fallback_address(text) ==
    LET low == lower(text)
        step(m, k) == IF m # NoMatch THEN m ELSE Search(AddressPatterns[k], low)
        m == Thread(step, 1, Len(AddressPatterns), NoMatch)
    IN  IF m = NoMatch THEN "" ELSE title(SubSeq(low, m[1], m[2] - 1))

\* --------------------------------------------------------------------------
\* State.  extract_final on one OCR text is a sequence of steps, pc the next
\* one; clean_ocr and match_known_name_from_text are also run step by step on
\* inputs of their own (cpc, mpc), each under its own specification.
\* --------------------------------------------------------------------------
VARIABLES
    pc,         \* the next step of extract_final; "done": returned; "raised": an exception left it
    ocr_text,   \* the argument of extract_final
    cleaned,    \* clean_ocr(ocr_text)
    backend,    \* the outcome of the request: "idle", "ok" or the exception raised
    resp,       \* the response text of the backend
    data,       \* extract_json(resp)
    raw_name,   \* the name of the response, stripped
    raw_addr,   \* the address of the response, stripped
    name,
    address,
    record,     \* the records returned: none or one
    error,      \* the exception that left extract_final, "" if none
    calls,      \* history: the functions called so far, in order
    cpc,        \* the next step of clean_ocr
    text,       \* the local text of clean_ocr
    mpc,        \* the next step of match_known_name_from_text
    mtext,      \* its argument
    candidates,
    pair,       \* the number of (candidate, known name) pairs compared
    best,       \* best_name and best_score
    result      \* what it returned

pipeVars == <<pc, ocr_text, cleaned, backend, resp, data, raw_name, raw_addr, name, address,
              record, error, calls>>
cleanVars == <<cpc, text>>
matchVars == <<mpc, mtext, candidates, pair, best, result>>
vars == <<pipeVars, cleanVars, matchVars>>

\* --------------------------------------------------------------------------
\* Inputs
\* --------------------------------------------------------------------------
MaxOcrParts == 2
MaxCleanTokens == 3
MaxMatchWords == 3

\* the words ws[1..Len(ws)] with sep between them
Join(ws, sep) ==
    Thread(LAMBDA acc, k : IF k = 1 THEN ws[k] ELSE acc \o sep \o ws[k], 1, Len(ws), "")

\* the texts of at most max items of the list, sep between them
TextsOf(items, max, sep) ==
    UNION {{Join([k \in 1..n |-> items[f[k]]], sep) : f \in [1..n -> 1..Len(items)]} :
             n \in 0..max}

raw_texts ==
    <<"lex2 2.8 lbs, 2821 carradale dr, 95661-4047 roseville, ca, fat1, united states, zoey dong, dsm1, 0503 dsm1, tba132376390000, cycle 1, a sm1",
      "batavia stkllt, special instructiu, metr 4684 3913 8542, g, ca 8206s, 95661, o, 230, 2, paper, fedex, mps 46843913 8553, frun, 2164 n, 9622 00 19 0 000 000 0000 0 00 4684 3913 8553, 8150 sierra college blvd ste, syta saephan, notifil, roseville ca 95661, ground, of 2, 214 787-430o, us, bill sender",
      "ship to, ups ground, 41 lbs, tracking : 1z v4w 195 03 6500 6276, manautr, 2821 carradale dr, ree v0084700946203420100402, etxk-0806:, 0f 1, 1, ky dong, 95661-4047, ref, wi 34.18, 17, nippina, 310 99-085, ca 956 0-01, billing pip, roseville ca, cwtainity",
      "tashayanna mixson, postage fes paid, north gate apartments, notifii llc, 621 42nd st e, williston nd 58801-6810">>

\* label fragments: a recipient, a misread recipient, an address on one line
OcrParts == <<"zoey dong", "Tashayana Mixson", "2821 elm dr fargo nd 58102">>

OcrTexts == {raw_texts[k] : k \in 1..Len(raw_texts)} \cup TextsOf(OcrParts, MaxOcrParts, ", ")

\* what the model may answer for a field, as JSON text; Absent: no such key
Absent == "absent"
NameJsons ==
    <<Absent, "\"\"", "\"  \"", "\" Zoey Dong\"", "\"tashayanna mixon\"", "\"John Smith\"",
      "null", "42", "[\"Zoey Dong\"]">>
AddrJsons ==
    <<Absent, "\"\"", "\" \"", "\" 12 Elm St, Fargo ND 58102 \"", "\"unknown\"", "null",
      "{\"street\": \"12 Elm St\"}">>

Field(key, json) == IF json = Absent THEN <<>> ELSE <<"\"" \o key \o "\": " \o json>>

ObjectOf(nameJson, addrJson) ==
    "{" \o Join(Field("recipient_name", nameJson) \o Field("recipient_address", addrJson), ", ")
        \o "}"

\* responses that are a JSON object, bare or with prose around it
\* (every answer for one field with no or a plain answer for the other)
ObjectResponses ==
    {ObjectOf(NameJsons[i], AddrJsons[j]) : i \in 1..Len(NameJsons), j \in {1, 2, 5}}
        \cup {ObjectOf(NameJsons[i], AddrJsons[j]) : i \in {1, 2, 4}, j \in 1..Len(AddrJsons)}
        \cup {"Here is the result:\n" \o ObjectOf("\"Zoey Dong\"", "\"\"") \o "\nDone."}

\* responses without a span {...}, and with a span that json.loads rejects
BrokenResponses ==
    {"", "I could not read the label.", "} {",
     "{\"recipient_name\": \"Zoey Dong\"",
     "{recipient_name: Zoey Dong}",
     "{\"recipient_name\": \"Zoey Dong\",}",
     "{\"recipient_name\": \"Zoey Dong\"} or {\"recipient_name\": \"Ky Dong\"}"}

Responses == ObjectResponses \cup BrokenResponses

\* requests.post raising (no connection, timeout), raise_for_status raising
BackendErrors == {"ConnectionError", "Timeout", "HTTPError"}

\* --------------------------------------------------------------------------
\* extract_final
\* --------------------------------------------------------------------------
CleanIdle == cpc = "idle" /\ text = ""
MatchIdle ==
    /\ mpc = "idle"
    /\ mtext = ""
    /\ candidates = <<>>
    /\ pair = 0
    /\ best = BestStart
    /\ result = ""

PipeIdle ==
    /\ pc = "idle"
    /\ ocr_text = ""
    /\ cleaned = ""
    /\ backend = "idle"
    /\ resp = ""
    /\ data = EmptyDict
    /\ raw_name = ""
    /\ raw_addr = ""
    /\ name = ""
    /\ address = ""
    /\ record = <<>>
    /\ error = ""
    /\ calls = <<>>

Init ==
    /\ pc = "clean"
    /\ ocr_text \in OcrTexts
    /\ cleaned = ""
    /\ backend = "idle"
    /\ resp = ""
    /\ data = EmptyDict
    /\ raw_name = ""
    /\ raw_addr = ""
    /\ name = ""
    /\ address = ""
    /\ record = <<>>
    /\ error = ""
    /\ calls = <<>>
    /\ CleanIdle
    /\ MatchIdle

\* cleaned = clean_ocr(ocr_text)
CleanOcr ==
    /\ pc = "clean"
    /\ cleaned' = clean_ocr(ocr_text)
    /\ calls' = Append(calls, "clean_ocr")
    /\ pc' = "call"
    /\ UNCHANGED <<ocr_text, backend, resp, data, raw_name, raw_addr, name, address, record,
                   error, cleanVars, matchVars>>

\* resp = call_ollama(cleaned): the backend answers with some text
CallOllamaReturns ==
    /\ pc = "call"
    /\ \E r \in Responses : resp' = r
    /\ backend' = "ok"
    /\ calls' = Append(calls, "call_ollama")
    /\ pc' = "parse"
    /\ UNCHANGED <<ocr_text, cleaned, data, raw_name, raw_addr, name, address, record, error,
                   cleanVars, matchVars>>

\* call_ollama with its exception caught and an empty response in its place
CallOllamaSwallowed ==
    /\ pc = "call"
    /\ \E e \in BackendErrors : backend' = e
    /\ resp' = ""
    /\ calls' = Append(calls, "call_ollama")
    /\ pc' = "parse"
    /\ UNCHANGED <<ocr_text, cleaned, data, raw_name, raw_addr, name, address, record, error,
                   cleanVars, matchVars>>

\* call_ollama raises, and nothing in extract_final catches it
CallOllamaRaises ==
    /\ pc = "call"
    /\ \E e \in BackendErrors : backend' = e /\ error' = e
    /\ calls' = Append(calls, "call_ollama")
    /\ pc' = "raised"
    /\ UNCHANGED <<ocr_text, cleaned, resp, data, raw_name, raw_addr, name, address, record,
                   cleanVars, matchVars>>

\* data = extract_json(resp)
ExtractJson ==
    /\ pc = "parse"
    /\ data' = extract_json(resp)
    /\ calls' = Append(calls, "extract_json")
    /\ pc' = "fields"
    /\ UNCHANGED <<ocr_text, cleaned, backend, resp, raw_name, raw_addr, name, address, record,
                   error, cleanVars, matchVars>>

ModelName == DictGet(data, "recipient_name", StrVal(""))
ModelAddr == DictGet(data, "recipient_address", StrVal(""))

\* raw_name = data.get("recipient_name", "").strip(), and the same for the
\* address: only a str has strip
ReadFields ==
    /\ pc = "fields"
    /\ IF ModelName.k = "str" /\ ModelAddr.k = "str"
       THEN /\ raw_name' = strip(ModelName.s)
            /\ raw_addr' = strip(ModelAddr.s)
            /\ pc' = "validate"
            /\ UNCHANGED error
       ELSE /\ error' = "AttributeError"
            /\ pc' = "raised"
            /\ UNCHANGED <<raw_name, raw_addr>>
    /\ UNCHANGED <<ocr_text, cleaned, backend, resp, data, name, address, record, calls,
                   cleanVars, matchVars>>

\* name = match_known_name_from_text(raw_name) if raw_name else ""
ValidateName ==
    /\ pc = "validate"
    /\ IF raw_name # ""
       THEN /\ name' = match_known_name_from_text(raw_name)
            /\ calls' = Append(calls, "match_known_name_from_text(raw_name)")
       ELSE /\ name' = ""
            /\ UNCHANGED calls
    /\ pc' = "fallback"
    /\ UNCHANGED <<ocr_text, cleaned, backend, resp, data, raw_name, raw_addr, address, record,
                   error, cleanVars, matchVars>>

\* the OCR-level match without its condition: it replaces a validated name
OcrFallbackAlways ==
    /\ pc = "fallback"
    /\ name' = match_known_name_from_text(ocr_text)
    /\ calls' = Append(calls, "match_known_name_from_text(ocr_text)")
    /\ pc' = "address"
    /\ UNCHANGED <<ocr_text, cleaned, backend, resp, data, raw_name, raw_addr, address, record,
                   error, cleanVars, matchVars>>

\* if not name: name = match_known_name_from_text(ocr_text)
OcrFallback ==
    /\ pc = "fallback"
    /\ IF name = ""
       THEN /\ name' = match_known_name_from_text(ocr_text)
            /\ calls' = Append(calls, "match_known_name_from_text(ocr_text)")
       ELSE UNCHANGED <<name, calls>>
    /\ pc' = "address"
    /\ UNCHANGED <<ocr_text, cleaned, backend, resp, data, raw_name, raw_addr, address, record,
                   error, cleanVars, matchVars>>

\* the address with the regex tried first and the model's address second
ResolveAddressRegexFirst ==
    /\ pc = "address"
    /\ address' = (IF fallback_address(ocr_text) # "" THEN fallback_address(ocr_text)
                   ELSE raw_addr)
    /\ calls' = Append(calls, "fallback_address")
    /\ pc' = "return"
    /\ UNCHANGED <<ocr_text, cleaned, backend, resp, data, raw_name, raw_addr, name, record,
                   error, cleanVars, matchVars>>

\* address = raw_addr if raw_addr else fallback_address(ocr_text)
ResolveAddress ==
    /\ pc = "address"
    /\ IF raw_addr # ""
       THEN /\ address' = raw_addr
            /\ UNCHANGED calls
       ELSE /\ address' = fallback_address(ocr_text)
            /\ calls' = Append(calls, "fallback_address")
    /\ pc' = "return"
    /\ UNCHANGED <<ocr_text, cleaned, backend, resp, data, raw_name, raw_addr, name, record,
                   error, cleanVars, matchVars>>

\* return {"recipient_name": name, "recipient_address": address}
Return ==
    /\ pc = "return"
    /\ record' = <<[recipient_name |-> name, recipient_address |-> address]>>
    /\ pc' = "done"
    /\ UNCHANGED <<ocr_text, cleaned, backend, resp, data, raw_name, raw_addr, name, address,
                   error, calls, cleanVars, matchVars>>

Next ==
    \/ CleanOcr
    \/ CallOllamaReturns
    \/ CallOllamaRaises
    \/ ExtractJson
    \/ ReadFields
    \/ ValidateName
    \/ OcrFallback
    \/ ResolveAddress
    \/ Return

Spec == Init /\ [][Next]_vars

\* --------------------------------------------------------------------------
\* clean_ocr, statement by statement, on every text of CleanTexts
\* --------------------------------------------------------------------------
\* tokens a label holds: parts of the removed phrases, a weight, a long number
CleanTokens == <<"united", "states", "usa", "priority", "2.8", "lbs", "1234567890", "Zoey">>

CleanTexts == TextsOf(CleanTokens, MaxCleanTokens, " ")

InitClean ==
    /\ cpc = "lower"
    /\ text \in CleanTexts
    /\ PipeIdle
    /\ MatchIdle

\* text = text.lower()
LowerText ==
    /\ cpc = "lower"
    /\ text' = lower(text)
    /\ cpc' = "weight"
    /\ UNCHANGED <<pipeVars, matchVars>>

\* text = re.sub(r"\b\d+(\.\d+)?\s?lbs\b", "", text)
RemoveWeights ==
    /\ cpc = "weight"
    /\ text' = SubWeight(text)
    /\ cpc' = "digits"
    /\ UNCHANGED <<pipeVars, matchVars>>

\* text = re.sub(r"\b\d{10,}\b", "", text)
RemoveLongDigits ==
    /\ cpc = "digits"
    /\ text' = SubLongDigits(text)
    /\ cpc' = "country"
    /\ UNCHANGED <<pipeVars, matchVars>>

\* text = re.sub(r"\b(united states|usa)\b", "", text)
RemoveCountry ==
    /\ cpc = "country"
    /\ text' = SubCountry(text)
    /\ cpc' = "stopwords"
    /\ UNCHANGED <<pipeVars, matchVars>>

\* text = re.sub(r"\b(priority|...|postage)\b", "", text)
RemoveStopWords ==
    /\ cpc = "stopwords"
    /\ text' = SubStopWords(text)
    /\ cpc' = "collapse"
    /\ UNCHANGED <<pipeVars, matchVars>>

\* return re.sub(r"\s+", " ", text).strip()
ReturnCollapsed ==
    /\ cpc = "collapse"
    /\ text' = CollapseSpaces(text)
    /\ cpc' = "done"
    /\ UNCHANGED <<pipeVars, matchVars>>

NextClean ==
    \/ LowerText
    \/ RemoveWeights
    \/ RemoveLongDigits
    \/ RemoveCountry
    \/ RemoveStopWords
    \/ ReturnCollapsed

SpecClean == InitClean /\ [][NextClean]_vars

\* --------------------------------------------------------------------------
\* match_known_name_from_text, one comparison a step, on every text of
\* MatchTexts
\* --------------------------------------------------------------------------
\* words of the known names, a misread word, a word too short to count
MatchVocabulary == <<"zoey", "dong", "saephan", "Tashayanna", "xyzk", "ky">>

MatchTexts == TextsOf(MatchVocabulary, MaxMatchWords, " ")

InitMatch ==
    /\ mpc = "words"
    /\ mtext \in MatchTexts
    /\ candidates = <<>>
    /\ pair = 0
    /\ best = BestStart
    /\ result = ""
    /\ PipeIdle
    /\ CleanIdle

\* words = re.findall(...); candidates = [...]; best_name = ""; best_score = 0.0
BuildCandidates ==
    /\ mpc = "words"
    /\ candidates' = Candidates(NameWords(mtext))
    /\ pair' = 0
    /\ best' = BestStart
    /\ mpc' = "loop"
    /\ UNCHANGED <<mtext, result, pipeVars, cleanVars>>

\* one pass of the inner loop
CompareNext ==
    /\ mpc = "loop"
    /\ pair < Len(candidates) * Len(KNOWN_RECIPIENTS)
    /\ best' = Compare(best, PairCand(candidates, pair + 1), PairReal(pair + 1))
    /\ pair' = pair + 1
    /\ UNCHANGED <<mpc, mtext, candidates, result, pipeVars, cleanVars>>

\* return best_name if best_score >= 0.75 else ""
ReturnBest ==
    /\ mpc = "loop"
    /\ pair = Len(candidates) * Len(KNOWN_RECIPIENTS)
    /\ result' = BestOf(best)
    /\ mpc' = "done"
    /\ UNCHANGED <<mtext, candidates, pair, best, pipeVars, cleanVars>>

NextMatch ==
    \/ BuildCandidates
    \/ CompareNext
    \/ ReturnBest

SpecMatch == InitMatch /\ [][NextMatch]_vars

\* --------------------------------------------------------------------------
\* Properties
\* --------------------------------------------------------------------------
Known == {KNOWN_RECIPIENTS[k] : k \in 1..Len(KNOWN_RECIPIENTS)}
KnownOrEmpty == Known \cup {""}

Called(f) == \E k \in 1..Len(calls) : calls[k] = f
CallIndex(f) == Min({k \in 1..Len(calls) : calls[k] = f})
MatchOnName == "match_known_name_from_text(raw_name)"
MatchOnOcr == "match_known_name_from_text(ocr_text)"

Contains(s, w) == \E i \in 1..(Len(s) - Len(w) + 1) : StartsWith(s, i, w)

\* C1: the name that match_known_name_from_text returns, for the model's name
\* and for the OCR text alike, and the recipient_name of a returned record are
\* the empty string or one of KNOWN_RECIPIENTS.
C1_NameIsKnownOrEmpty ==
    /\ name \in KnownOrEmpty
    /\ \A k \in 1..Len(record) : record[k].recipient_name \in KnownOrEmpty

\* a record whose name is a known recipient that differs from the text the
\* model gave, which alone decided it
C1_Witness ==
    /\ pc = "done"
    /\ raw_name \notin KnownOrEmpty
    /\ ~Called(MatchOnOcr)
    /\ record[1].recipient_name \in Known

\* C2: when the backend call returned a response, extract_final does not
\* raise, whatever the response text: only a failed backend call ends a run
\* in an error.
C2_OnlyBackendFailureRaises == pc = "raised" => backend \in BackendErrors

\* C3: when the backend call fails, its exception leaves extract_final: no
\* record is returned, no step follows, and neither the match over the OCR
\* text nor the address regex has run.
C3_BackendFailurePropagates ==
    backend \in BackendErrors =>
        /\ pc = "raised"
        /\ error = backend
        /\ record = <<>>
        /\ ~Called(MatchOnOcr)
        /\ ~Called("fallback_address")
        /\ ~ENABLED Next

C3_Witness == pc = "raised" /\ backend = "Timeout" /\ cleaned # ""

C5_NameFallbackOrder ==
    pc \in {"address", "return", "done"} =>
        LET given == strip(ModelName.s)
            validated == IF given # "" THEN match_known_name_from_text(given) ELSE ""
            fromOcr == match_known_name_from_text(ocr_text)
        IN  /\ Called(MatchOnName) <=> given # ""
            /\ Called(MatchOnOcr) <=> validated = ""
            /\ Called(MatchOnName) /\ Called(MatchOnOcr)
                   => CallIndex(MatchOnName) < CallIndex(MatchOnOcr)
            /\ name = (IF validated # "" THEN validated ELSE fromOcr)
            /\ name = "" <=> validated = "" /\ fromOcr = ""
            /\ pc = "done" => record[1].recipient_name = name

\* the model's name validates to one known recipient and is final, while the
\* OCR text resolves to another
C5_Witness ==
    /\ pc = "done"
    /\ Called(MatchOnName)
    /\ ~Called(MatchOnOcr)
    /\ record[1].recipient_name \in Known
    /\ match_known_name_from_text(ocr_text) \in Known \ {record[1].recipient_name}

\* C6: what clean_ocr returns holds no weight token, no standalone run of 10
\* or more digits, no "united states" or "usa" token and no stopword.
C6_CleanedHasNoNoise ==
    cpc = "done" =>
        /\ ~Matches(WeightPattern, text)
        /\ ~Matches(LongDigitsPattern, text)
        /\ ~Matches(CountryPattern, text)
        /\ ~Matches(StopWordPattern, text)

\* the response has no span {...}, or json.loads rejects the span
Undecodable(r) ==
    LET m == Search(JsonSpanPattern, r)
    IN  m = NoMatch \/ ~json_loads(SubSeq(r, m[1], m[2] - 1)).ok

\* the response decodes to an object that gives both fields as ""
EmptyFields(r) ==
    /\ ~Undecodable(r)
    /\ LET d == extract_json(r)
       IN  \A key \in {"recipient_name", "recipient_address"} :
               /\ \E k \in 1..Len(d.items) : d.items[k][1] = key
               /\ DictGet(d, key, StrVal("")) = StrVal("")

FallbackRecord(ocr) ==
    [recipient_name |-> match_known_name_from_text(ocr),
     recipient_address |-> fallback_address(ocr)]

\* C7: a response without a decodable JSON span and a response whose JSON
\* gives both fields as "" end alike, for every OCR text: no error, and the
\* record that the two fallbacks make of the raw OCR text.
C7_UndecodableAsEmptyFields ==
    pc \in {"raised", "done"} /\ backend = "ok" /\ (Undecodable(resp) \/ EmptyFields(resp)) =>
        /\ pc = "done"
        /\ record = <<FallbackRecord(ocr_text)>>

\* a response with a span that json.loads rejects, and a record filled by
\* both fallbacks
C7_Witness ==
    /\ pc = "done"
    /\ Matches(JsonSpanPattern, resp)
    /\ Undecodable(resp)
    /\ record[1].recipient_name # ""
    /\ record[1].recipient_address # ""

NoModelFields == raw_name = "" /\ raw_addr = ""

\* C8: for the first text of raw_texts and a model that gives no name and no
\* address, the record has the name "Zoey Dong", from the match over the OCR
\* text, and a non-empty title-cased address, from the regex, that contains
\* "2821 Carradale Dr" and "95661".
C8_ScenarioOne ==
    pc = "done" /\ ocr_text = raw_texts[1] /\ NoModelFields =>
        /\ record[1].recipient_name = "Zoey Dong"
        /\ Called(MatchOnOcr)
        /\ Called("fallback_address")
        /\ record[1].recipient_address # ""
        /\ record[1].recipient_address = title(record[1].recipient_address)
        /\ Contains(record[1].recipient_address, "2821 Carradale Dr")
        /\ Contains(record[1].recipient_address, "95661")

\* C9: for the fourth text of raw_texts and a model that gives no name and no
\* address, the record has the name "Tashayanna Mixson" and an address, from
\* the regex, that contains "621 42Nd St E" and "58801-6810".
C9_ScenarioTwo ==
    pc = "done" /\ ocr_text = raw_texts[4] /\ NoModelFields =>
        /\ record[1].recipient_name = "Tashayanna Mixson"
        /\ Called("fallback_address")
        /\ record[1].recipient_address # ""
        /\ Contains(record[1].recipient_address, "621 42Nd St E")
        /\ Contains(record[1].recipient_address, "58801-6810")

\* the members of a set of numbers in increasing order
Sorted(set) ==
    [k \in 1..Cardinality(set) |-> CHOOSE m \in set : Cardinality({n \in set : n < m}) = k - 1]

\* the reference of C10: the words are the maximal runs of letters, of length
\* 3 or more, of the text in lower case; the pairs (bigram, known name) are
\* numbered in bigram order and, within a bigram, in whitelist order; of the
\* pairs with the greatest score the first decides.
ReferenceWords(t) ==
    LET low == lower(t)
        starts == {i \in 1..Len(low) :
                      /\ Ch(low, i) \in LowerAlpha
                      /\ i = 1 \/ Ch(low, i - 1) \notin LowerAlpha
                      /\ RunEnd(LowerAlpha, low, i) - i >= 3}
        order == Sorted(starts)
    IN  [k \in 1..Len(order) |-> SubSeq(low, order[k], RunEnd(LowerAlpha, low, order[k]) - 1)]

ReferenceMatch(t) ==
    LET words == ReferenceWords(t)
        known == Len(KNOWN_RECIPIENTS)
        pairs == {<<c, r>> : c \in 1..(Len(words) - 1), r \in 1..known}
        score == [p \in pairs |->
                     similarity(words[p[1]] \o " " \o words[p[1] + 1], KNOWN_RECIPIENTS[p[2]])]
        top == {p \in pairs : \A q \in pairs : AtLeast(score[p], score[q])}
        first == CHOOSE p \in top :
                     \A q \in top : p[1] < q[1] \/ (p[1] = q[1] /\ p[2] <= q[2])
    IN  IF pairs = {} THEN ""
        ELSE IF AtLeast(score[first], Threshold) THEN KNOWN_RECIPIENTS[first[2]] ELSE ""

\* C10: match_known_name_from_text returns what the reference returns.
C10_MatchEqualsReference == mpc = "done" => result = ReferenceMatch(mtext)

\* a text with two bigrams that score exactly 0.75, each against another
\* known name: the first decides, and the score is accepted
C10_Witness ==
    /\ mpc = "done"
    /\ result # ""
    /\ ~Greater(best.best_score, Threshold)
    /\ \E n \in 1..pair :
           /\ PairReal(n) # result
           /\ AtLeast(similarity(PairCand(candidates, n), PairReal(n)), best.best_score)
====
